---- MODULE Spec2Model ----
(***************************************************************************)
(* Voice analysis system (src/app.py): VoiceAnalyzer.load_audio,           *)
(* analyze_voice, get_evaluation_level, generate_diagnosis and the request *)
(* handling of main(), as a state machine.                                 *)
(*                                                                         *)
(* Numbers.  The code works on floats; the model keeps every quantity in a *)
(* fixed unit so that the arithmetic is integer arithmetic:                *)
(*   rms        in 1/1000 of full scale   (0.25  is 250)                   *)
(*   variation  in 1/1000                 (0.09  is 90)                    *)
(*   centroid, rolloff, pitch_std in Hz, tempo in BPM, lengths in samples. *)
(* Python's int() truncates toward zero; PyInt does the same.              *)
(* Japanese string literals of the source are written as ASCII keys; each  *)
(* key stands for exactly one literal of the source.                       *)
(***************************************************************************)
EXTENDS Integers, Sequences, FiniteSets, TLC

VARIABLES
    pc,                 \* position of the running script / call
    analysis_complete,  \* st.session_state.analysis_complete
    result_image,       \* st.session_state.result_image (None or the image)
    requests,           \* number of form submissions so far
    name,               \* form input: name
    purpose,            \* form input: purpose
    audio_file,         \* form input: uploaded file (None or a file)
    tmp_file,           \* the temporary file of load_audio
    decode_calls,       \* calls of librosa.load made by this request
    y,                  \* decoded buffer (None or [samples, features])
    duration,           \* duration value returned by load_audio
    load_error,         \* exception raised by load_audio (None or exception)
    metrics,            \* the metrics dict of analyze_voice
    total_score,        \* generate_diagnosis: total_score
    level,              \* generate_diagnosis: level
    level_desc,         \* generate_diagnosis: level_desc
    diagnosis,          \* generate_diagnosis: diagnosis text, by its parts
    message             \* what the page shows for this run (st.error / st.success)

vars == <<pc, analysis_complete, result_image, requests, name, purpose,
          audio_file, tmp_file, decode_calls, y, duration, load_error,
          metrics, total_score, level, level_desc, diagnosis, message>>

session == <<analysis_complete, result_image>>
form == <<name, purpose, audio_file>>
loadVars == <<tmp_file, decode_calls, y, duration, load_error>>
resultVars == <<metrics, total_score, level, level_desc, diagnosis>>

None == "None"

----------------------------------------------------------------------------
(* Arithmetic helpers *)

Min(a, b) == IF a <= b THEN a ELSE b

Max(a, b) == IF a >= b THEN a ELSE b

Abs(a) == IF a >= 0 THEN a ELSE -a

\* Python int(num / den) for den > 0: truncation toward zero.
PyInt(num, den) == IF num >= 0 THEN num \div den ELSE -((-num) \div den)

----------------------------------------------------------------------------
(* Program constants *)

sample_rate == 22050

MaxSeconds == 30

ScoreCap == 99

SilentVolume == 10

VolumeGain == 500

ClarityScale == 40

PitchFloor == 10

NoPitchScore == 50

SpeakingTempo == 120

MinFrames == 10

ExpressionLow == 30

ExpressionHigh == 95

ExpressionGain == 650

ShortExpression == 40

ResonanceScale == 50

WeakThreshold == 60

MetricKeys == <<"volume", "clarity", "pitch_stability", "rhythm", "expression", "resonance">>

MetricSetKeys == {MetricKeys[i] : i \in 1..Len(MetricKeys)}

Purposes == {"singing", "speaking", "presentation"}

----------------------------------------------------------------------------
(* analyze_voice: the six scores from the features of the buffer *)

\* A buffer is known to analyze_voice by the statistics librosa/numpy
\* compute from it:
\*   voiced    : some sample has |y| > 0.01
\*   rms       : RMS of those samples (1/1000); > 10 because each is > 0.01
\*   centroid  : mean spectral centroid (Hz)
\*   pitched   : some frame has a pitch > 0
\*   pitch_std : standard deviation of those pitches (Hz)
\*   tempo     : beat_track tempo (BPM)
\*   frames    : number of RMS frames above 10% of the maximum
\*   variation : std/mean of those frames (1/1000)
\*   rolloff   : mean spectral rolloff (Hz)

volume_score(f) ==
    IF f.voiced THEN Min(ScoreCap, PyInt(f.rms * VolumeGain, 1000))
    ELSE SilentVolume

clarity_score(f) == Min(ScoreCap, PyInt(f.centroid, ClarityScale))

\* pitch_stability_score without the max(10, ...) floor
pitch_stability_score_nofloor(f) ==
    IF f.pitched
    THEN Min(ScoreCap, PyInt(ScoreCap * 10 - f.pitch_std, 10))
    ELSE NoPitchScore

pitch_stability_score(f) ==
    IF f.pitched
    THEN Max(PitchFloor, Min(ScoreCap, PyInt(ScoreCap * 10 - f.pitch_std, 10)))
    ELSE NoPitchScore

rhythm_score(f, p) ==
    IF p = "speaking"
    THEN Min(ScoreCap, PyInt(50 * 2 + Abs(SpeakingTempo - f.tempo), 2))
    ELSE Min(ScoreCap, PyInt(f.tempo, 2))

expression_score(f) ==
    IF f.frames > MinFrames
    THEN Min(ExpressionHigh,
             Max(ExpressionLow, PyInt(ExpressionLow * 1000 + f.variation * ExpressionGain, 1000)))
    ELSE ShortExpression

resonance_score(f) == Min(ScoreCap, PyInt(f.rolloff, ResonanceScale))

\* lines 64-129: the metrics dict before the purpose adjustment
BaseScores(f, p) ==
    [k \in MetricSetKeys |->
        CASE k = "volume" -> volume_score(f)
          [] k = "clarity" -> clarity_score(f)
          [] k = "pitch_stability" -> pitch_stability_score(f)
          [] k = "rhythm" -> rhythm_score(f, p)
          [] k = "expression" -> expression_score(f)
          [] k = "resonance" -> resonance_score(f)]

\* min(99, int(s * 1.2)) and min(99, int(s * 1.1)); for 0 <= s <= 99 the
\* double product truncates to the exact floor of s*12/10 and s*11/10.
Times12(s) == Min(ScoreCap, PyInt(s * 12, 10))

\* Times11 without the re-cap at 99
Times11_nocap(s) == PyInt(s * 11, 10)

Times11(s) == Min(ScoreCap, PyInt(s * 11, 10))

\* ApplyPurpose with the speaking factors swapped between clarity and rhythm
ApplyPurpose_swapped(m, p) ==
    CASE p = "singing" ->
            [m EXCEPT !["pitch_stability"] = Times12(@), !["expression"] = Times11(@)]
      [] p = "speaking" ->
            [m EXCEPT !["clarity"] = Times11(@), !["rhythm"] = Times12(@)]
      [] p = "presentation" ->
            [m EXCEPT !["volume"] = Times11(@), !["clarity"] = Times11(@)]
      [] OTHER -> m

\* lines 131-140: the purpose adjustment
ApplyPurpose(m, p) ==
    CASE p = "singing" ->
            [m EXCEPT !["pitch_stability"] = Times12(@), !["expression"] = Times11(@)]
      [] p = "speaking" ->
            [m EXCEPT !["clarity"] = Times12(@), !["rhythm"] = Times11(@)]
      [] p = "presentation" ->
            [m EXCEPT !["volume"] = Times11(@), !["clarity"] = Times11(@)]
      [] OTHER -> m

----------------------------------------------------------------------------
(* get_evaluation_level and generate_diagnosis *)

LevelS == 450

LevelA == 400

LevelB == 350

LevelC == 300

\* Keys of the description literals of lines 198-206.
DescS == "professional level"

DescA == "excellent"

DescB == "good"

DescC == "standard"

DescD == "room for improvement"

\* get_evaluation_level with exclusive lower bounds
get_evaluation_level_strict(total) ==
    IF total > LevelS THEN <<"S", DescS>>
    ELSE IF total > LevelA THEN <<"A", DescA>>
    ELSE IF total > LevelB THEN <<"B", DescB>>
    ELSE IF total > LevelC THEN <<"C", DescC>>
    ELSE <<"D", DescD>>

\* lines 195-206: <<level, description>>
get_evaluation_level(total) ==
    IF total >= LevelS THEN <<"S", DescS>>
    ELSE IF total >= LevelA THEN <<"A", DescA>>
    ELSE IF total >= LevelB THEN <<"B", DescB>>
    ELSE IF total >= LevelC THEN <<"C", DescC>>
    ELSE <<"D", DescD>>

\* self.metrics_names (lines 16-23), by ASCII keys of the labels
metrics_names ==
    [k \in MetricSetKeys |->
        CASE k = "volume" -> "label:loudness"
          [] k = "clarity" -> "label:clarity"
          [] k = "pitch_stability" -> "label:pitch stability"
          [] k = "rhythm" -> "label:rhythm and tempo"
          [] k = "expression" -> "label:expressiveness"
          [] k = "resonance" -> "label:resonance"]

\* lines 261-272: the hint literal of each metric
HintOf ==
    [k \in MetricSetKeys |->
        CASE k = "volume" -> "hint:abdominal breathing"
          [] k = "clarity" -> "hint:mouth and tongue position"
          [] k = "pitch_stability" -> "hint:long tones"
          [] k = "rhythm" -> "hint:metronome"
          [] k = "expression" -> "hint:reading with emotion"
          [] k = "resonance" -> "hint:resonance cavities"]

TemplatesPerLevel == 3

\* lines 214-240: patterns[level][i] with the name interpolated; the three
\* literals of a level are distinct and differ from those of other levels.
patterns(n) ==
    [l \in {"S", "A", "B", "C", "D"} |->
        [i \in 1..TemplatesPerLevel |-> [level |-> l, index |-> i, name |-> n]]]

RECURSIVE SumOver(_, _)
SumOver(m, keys) ==
    IF keys = {} THEN 0
    ELSE LET k == CHOOSE x \in keys : TRUE IN m[k] + SumOver(m, keys \ {k})

\* line 210: sum(metrics.values())
TotalOf(m) == SumOver(m, DOMAIN m)

\* line 251: list.sort(key=value) is stable: an element goes after every
\* element whose value is not greater.
RECURSIVE InsertByValue(_, _)
InsertByValue(x, s) ==
    IF s = <<>> THEN <<x>>
    ELSE IF x[2] < s[1][2] THEN <<x>> \o s
    ELSE <<s[1]>> \o InsertByValue(x, Tail(s))

RECURSIVE SortByValue(_)
SortByValue(s) ==
    IF s = <<>> THEN <<>>
    ELSE InsertByValue(s[Len(s)], SortByValue(SubSeq(s, 1, Len(s) - 1)))

IsWeak(v) == v < WeakThreshold

\* lines 246-251: weak_points, collected in the order of metrics.items()
\* and then sorted by value
RECURSIVE CollectWeak(_, _)
CollectWeak(m, i) ==
    IF i > Len(MetricKeys) THEN <<>>
    ELSE (IF IsWeak(m[MetricKeys[i]])
          THEN << <<metrics_names[MetricKeys[i]], m[MetricKeys[i]]>> >>
          ELSE <<>>) \o CollectWeak(m, i + 1)

\* weak_points without the sort of line 251
weak_points_unsorted(m) == CollectWeak(m, 1)

weak_points(m) == SortByValue(CollectWeak(m, 1))

\* lines 253-257: the entries the clause names (none: no clause)
WeakClause(m) ==
    LET w == weak_points(m) IN
    IF w = <<>> THEN <<>>
    ELSE IF Len(w) > 1 THEN <<w[1], w[2]>>
    ELSE <<w[1]>>

\* lines 260-272: hints
RECURSIVE CollectHints(_, _)
CollectHints(m, i) ==
    IF i > Len(MetricKeys) THEN <<>>
    ELSE (IF IsWeak(m[MetricKeys[i]]) THEN <<HintOf[MetricKeys[i]]>> ELSE <<>>)
         \o CollectHints(m, i + 1)

\* hints with the rhythm test reading pitch_stability
hints_wrong_key(m) == CollectHints([m EXCEPT !["rhythm"] = m["pitch_stability"]], 1)

hints(m) == CollectHints(m, 1)

\* generate_diagnosis drawing on the random source a second time: the
\* weakness clause is shuffled along with the template
generate_diagnosis_shuffled(m, p, n, choice) ==
    LET total == TotalOf(m)
        lv == get_evaluation_level(total)
    IN [diagnosis |-> [template |-> patterns(n)[lv[1]][choice],
                       clause |-> IF choice = 1 THEN WeakClause(m)
                                  ELSE SubSeq(CollectWeak(m, 1), 1, Len(WeakClause(m))),
                       hints |-> hints(m)],
        total_score |-> total,
        level |-> lv[1],
        level_desc |-> lv[2]]

\* lines 208-277; choice is the index random.choice picks
generate_diagnosis(m, p, n, choice) ==
    LET total == TotalOf(m)
        lv == get_evaluation_level(total)
    IN [diagnosis |-> [template |-> patterns(n)[lv[1]][choice],
                       clause |-> WeakClause(m),
                       hints |-> hints(m)],
        total_score |-> total,
        level |-> lv[1],
        level_desc |-> lv[2]]

----------------------------------------------------------------------------
(* Inputs *)

MaxTempoSteps == 8

TotalMargin == 5

RmsSamples == {11, 100, 180, 250}

CentroidSamples == {0, 2000, 5000}

PitchStdSamples == {0, 90, 190, 450, 1200}

TempoSamples == {k * 30 : k \in 0..MaxTempoSteps}

FrameSamples == {10, 11}

VariationSamples == {0, 50, 90, 200}

RolloffSamples == {0, 2500, 6000}

VolumeInputs == {<<FALSE, 0>>} \cup {<<TRUE, r>> : r \in RmsSamples}

PitchInputs == {<<FALSE, 0>>} \cup {<<TRUE, d>> : d \in PitchStdSamples}

ExpressionInputs ==
    {<<n, 0>> : n \in {k \in FrameSamples : k <= MinFrames}}
    \cup {<<n, v>> : n \in {k \in FrameSamples : k > MinFrames}, v \in VariationSamples}

MakeFeatures(a, c, b, t, e, r) ==
    [voiced |-> a[1], rms |-> a[2], centroid |-> c, pitched |-> b[1],
     pitch_std |-> b[2], tempo |-> t, frames |-> e[1], variation |-> e[2],
     rolloff |-> r]

FeatureSpace ==
    {MakeFeatures(a, c, b, t, e, r) :
        a \in VolumeInputs, c \in CentroidSamples, b \in PitchInputs,
        t \in TempoSamples, e \in ExpressionInputs, r \in RolloffSamples}

ScoreSamples == {30, 55, 59, 60, 90}

\* the MetricSet of the weakness example
ExampleMetrics ==
    [k \in MetricSetKeys |->
        CASE k = "volume" -> 40
          [] k = "clarity" -> 70
          [] k = "pitch_stability" -> 55
          [] k = "rhythm" -> 80
          [] k = "expression" -> 90
          [] k = "resonance" -> 30]

MetricSets == [MetricSetKeys -> ScoreSamples] \cup {ExampleMetrics}

TotalSamples == (0 - TotalMargin)..(6 * ScoreCap + TotalMargin)

Names == {"Taro"}

\* line 637: f"{name}san"
formatted_name(n) == <<n, "san">>

----------------------------------------------------------------------------
(* State *)

NoTmp == [created |-> FALSE, exists |-> FALSE, written |-> FALSE]

\* the locals of a run that has not computed them
FreshLoad ==
    /\ tmp_file = NoTmp
    /\ decode_calls = 0
    /\ y = <<>>
    /\ duration = -1
    /\ load_error = <<>>

FreshResult ==
    /\ metrics = <<>>
    /\ total_score = -1
    /\ level = None
    /\ level_desc = None
    /\ diagnosis = <<>>

FreshSession ==
    /\ analysis_complete = FALSE
    /\ result_image = <<>>
    /\ requests = 0

----------------------------------------------------------------------------
(* analyze_voice, get_evaluation_level, generate_diagnosis as steps *)

\* lines 64-129
ComputeScores ==
    /\ pc = "analyze"
    /\ metrics' = BaseScores(y[1].features, purpose)
    /\ pc' = "adjust"
    /\ UNCHANGED <<session, requests, form, loadVars, total_score, level,
                   level_desc, diagnosis, message>>

\* lines 131-142
AdjustForPurpose ==
    /\ pc = "adjust"
    /\ metrics' = ApplyPurpose(metrics, purpose)
    /\ pc' = "diagnose"
    /\ UNCHANGED <<session, requests, form, loadVars, total_score, level,
                   level_desc, diagnosis, message>>

\* line 653 with lines 208-277
GenerateDiagnosis ==
    /\ pc = "diagnose"
    /\ \E choice \in 1..TemplatesPerLevel :
          LET r == generate_diagnosis(metrics, purpose, formatted_name(name), choice) IN
          /\ diagnosis' = r.diagnosis
          /\ total_score' = r.total_score
          /\ level' = r.level
          /\ level_desc' = r.level_desc
    /\ pc' = "render"
    /\ UNCHANGED <<session, requests, form, loadVars, metrics, message>>

\* lines 195-206 on a given total
EvaluateLevel ==
    /\ pc = "level"
    /\ level' = get_evaluation_level(total_score)[1]
    /\ level_desc' = get_evaluation_level(total_score)[2]
    /\ pc' = "levelled"
    /\ UNCHANGED <<session, requests, form, loadVars, metrics, total_score,
                   diagnosis, message>>

----------------------------------------------------------------------------
(* analyze_voice on every buffer and purpose *)

InitAnalyze ==
    /\ pc = "analyze"
    /\ FreshSession
    /\ name \in Names
    /\ purpose \in Purposes
    /\ audio_file = <<>>
    /\ tmp_file = NoTmp
    /\ decode_calls = 0
    /\ \E f \in FeatureSpace : y = <<[samples |-> MaxSeconds * sample_rate, features |-> f]>>
    /\ duration = MaxSeconds
    /\ load_error = <<>>
    /\ FreshResult
    /\ message = None

NextAnalyze == ComputeScores \/ AdjustForPurpose

SpecAnalyze == InitAnalyze /\ [][NextAnalyze]_vars

(* get_evaluation_level on every total *)

InitLevel ==
    /\ pc = "level"
    /\ FreshSession
    /\ name \in Names
    /\ purpose \in Purposes
    /\ audio_file = <<>>
    /\ FreshLoad
    /\ metrics = <<>>
    /\ total_score \in TotalSamples
    /\ level = None
    /\ level_desc = None
    /\ diagnosis = <<>>
    /\ message = None

NextLevel == EvaluateLevel

SpecLevel == InitLevel /\ [][NextLevel]_vars

(* generate_diagnosis on every MetricSet *)

InitDiagnosis ==
    /\ pc = "diagnose"
    /\ FreshSession
    /\ name \in Names
    /\ purpose \in Purposes
    /\ audio_file = <<>>
    /\ FreshLoad
    /\ metrics \in MetricSets
    /\ total_score = -1
    /\ level = None
    /\ level_desc = None
    /\ diagnosis = <<>>
    /\ message = None

NextDiagnosis == GenerateDiagnosis

\* generate_diagnosis called again on the same MetricSet and name, as a
\* second run of line 653 does
RepeatDiagnosis ==
    /\ pc = "render"
    /\ \E choice \in 1..TemplatesPerLevel :
          LET r == generate_diagnosis(metrics, purpose, formatted_name(name), choice) IN
          /\ diagnosis' = r.diagnosis
          /\ total_score' = r.total_score
          /\ level' = r.level
          /\ level_desc' = r.level_desc
    /\ pc' = "render"
    /\ UNCHANGED <<session, requests, form, loadVars, metrics, message>>

NextDiagnosisTwice == GenerateDiagnosis \/ RepeatDiagnosis

SpecDiagnosisTwice == InitDiagnosis /\ [][NextDiagnosisTwice]_vars

SpecDiagnosis == InitDiagnosis /\ [][NextDiagnosis]_vars

----------------------------------------------------------------------------
(* Uploaded files *)

MaxRequests == 2

UpperCase == <<"A", "F", "L", "M", "P", "V", "W">>

LowerCase == <<"a", "f", "l", "m", "p", "v", "w">>

\* str.lower() on one character
LowerChar(c) ==
    IF \E i \in 1..Len(UpperCase) : UpperCase[i] = c
    THEN LowerCase[CHOOSE i \in 1..Len(UpperCase) : UpperCase[i] = c]
    ELSE c

\* name.split(".")[-1]: what follows the last dot, the whole name without one
LastPart(s) ==
    LET dots == {i \in 1..Len(s) : s[i] = "."} IN
    IF dots = {} THEN s
    ELSE SubSeq(s, (CHOOSE i \in dots : \A j \in dots : j <= i) + 1, Len(s))

\* line 27
file_extension(s) == [i \in 1..Len(LastPart(s)) |-> LowerChar(LastPart(s)[i])]

FileNames ==
    { <<"a", ".", "w", "a", "v">>,
      <<"a", ".", "W", "A", "V">>,
      <<"a", ".", "b", ".", "M", "p", "3">>,
      <<"a", ".", "m", "4", "a">>,
      <<"a", ".", "M", "4", "A">>,
      <<"c", "l", "i", "p", ".", "f", "l", "a", "c">>,
      <<"c", "l", "i", "p">> }

\* two recordings: a quiet, dull, slow one and a loud, bright, lively one
MainClips ==
    << MakeFeatures(<<TRUE, 11>>, 0, <<TRUE, 1200>>, 0, <<11, 0>>, 0),
       MakeFeatures(<<TRUE, 180>>, 5000, <<TRUE, 90>>, 150, <<11, 90>>, 6000) >>

SecondsSamples == {10, 30, 45}

\* what the bytes of an upload hold: a recording of some length, bytes no
\* decoder recognises, a damaged stream, or a stream that ends early
Contents ==
    {[kind |-> "audio", seconds |-> d, clip |-> c] :
        d \in SecondsSamples, c \in 1..Len(MainClips)}
    \cup {[kind |-> "unrecognised", seconds |-> 0, clip |-> 0],
          [kind |-> "corrupt", seconds |-> 0, clip |-> 0],
          [kind |-> "truncated", seconds |-> 0, clip |-> 0]}

\* the uploader hands main any file: load_audio itself tests for m4a, and
\* main handles the unsupported-format error of a decode
Uploads == {[name |-> n, content |-> c] : n \in FileNames, c \in Contents}

----------------------------------------------------------------------------
(* Exceptions and the messages of main *)

\* An exception is its type and its message; a message is the sequence of
\* the literal fragments it is built from, with the value interpolated into
\* it (arg), and "x in str(e)" asks for a literal fragment.
Contains(msg, fragment) == \E i \in 1..Len(msg) : msg[i] = fragment

\* line 31
M4AError ==
    [type |-> "ValueError",
     msg |-> <<"M4A files are currently not supported", "use WAV or MP3 files">>,
     arg |-> <<>>]

\* line 59
FormatError(ext) ==
    [type |-> "ValueError",
     msg |-> <<"audio file format", "is not supported", "use a WAV or MP3 file">>,
     arg |-> ext]

\* what librosa.load raises on bytes of each kind
DecodeFailure(content) ==
    IF content.kind = "unrecognised"
    THEN [type |-> "LibsndfileError", msg |-> <<"Error opening", "Format not recognised">>,
          arg |-> <<>>]
    ELSE IF content.kind = "truncated"
    THEN [type |-> "EOFError", msg |-> <<"unexpected end of stream">>, arg |-> <<>>]
    ELSE [type |-> "DecodeFailure", msg |-> <<"could not decode the stream">>, arg |-> <<>>]

WriteFailure == [type |-> "OSError", msg |-> <<"write failed">>, arg |-> <<>>]

UnlinkFailure == [type |-> "OSError", msg |-> <<"unlink failed">>, arg |-> <<>>]

DisplayFailure == [type |-> "Exception", msg |-> <<"rendering failed">>, arg |-> <<>>]

\* lines 769-781: the st.error text for an exception
ErrorMessage(e) ==
    IF Contains(e.msg, "M4A files are currently not supported")
    THEN "error:M4A files are not supported"
    ELSE IF Contains(e.msg, "audio file format") /\ Contains(e.msg, "is not supported")
    THEN "error:this file format is not supported"
    ELSE IF Contains(e.msg, "audio is too short")
    THEN "error:problem with the audio file"
    ELSE IF Contains(e.msg, "audio file read error")
    THEN "error:file is broken or unreadable"
    ELSE "error:processing failed"

----------------------------------------------------------------------------
(* main: one form submission *)

Init ==
    /\ pc = "idle"
    /\ FreshSession
    /\ name = ""
    /\ purpose = ""
    /\ audio_file = <<>>
    /\ FreshLoad
    /\ FreshResult
    /\ message = None

\* ValidationError without the test of the purpose
ValidationError_nopurpose(n, p, f) ==
    IF n = "" THEN "error:enter your name"
    ELSE IF f = <<>> THEN "error:upload an audio file"
    ELSE None

\* lines 624-634: the st.error text of the first failing test, None if all pass
ValidationError(n, p, f) ==
    IF n = "" THEN "error:enter your name"
    ELSE IF p = "" THEN "error:select a purpose"
    ELSE IF f = <<>> THEN "error:upload an audio file"
    ELSE None

\* lines 622-640: the form is submitted; validation
Submit ==
    /\ pc = "idle"
    /\ requests < MaxRequests
    /\ requests' = requests + 1
    /\ name' \in {""} \cup Names
    /\ purpose' \in {""} \cup Purposes
    /\ audio_file' \in {<<>>} \cup {<<u>> : u \in Uploads}
    /\ tmp_file' = NoTmp
    /\ decode_calls' = 0
    /\ y' = <<>>
    /\ duration' = -1
    /\ load_error' = <<>>
    /\ metrics' = <<>>
    /\ total_score' = -1
    /\ level' = None
    /\ level_desc' = None
    /\ diagnosis' = <<>>
    /\ message' = ValidationError(name', purpose', audio_file')
    /\ pc' = IF message' = None THEN "load" ELSE "idle"
    /\ UNCHANGED session

\* an exception e leaves load_audio and reaches line 769
RaiseFromLoad(e) ==
    /\ load_error' = <<e>>
    /\ y' = <<>>
    /\ message' = ErrorMessage(e)
    /\ pc' = "idle"

\* lines 27-31
CheckExtension ==
    /\ pc = "load"
    /\ IF file_extension(audio_file[1].name) = <<"m", "4", "a">>
       THEN RaiseFromLoad(M4AError)
       ELSE pc' = "tmp_write" /\ UNCHANGED <<load_error, y, message>>
    /\ UNCHANGED <<session, requests, form, tmp_file, decode_calls, duration, resultVars>>

\* lines 33-35: the file is created (delete=False) and the bytes written;
\* the write can fail
WriteTemp ==
    /\ pc = "tmp_write"
    /\ \E ok \in BOOLEAN :
          /\ tmp_file' = [created |-> TRUE, exists |-> TRUE, written |-> ok]
          /\ IF ok THEN pc' = "decode" /\ UNCHANGED <<load_error, y, message>>
             ELSE RaiseFromLoad(WriteFailure)
    /\ UNCHANGED <<session, requests, form, decode_calls, duration, resultVars>>

\* lines 54-60 entered with exception e: unlink if the file exists, which
\* can fail in turn, then translate e
HandleLoadFailure(e, unlinked) ==
    IF tmp_file.exists /\ ~unlinked
    THEN /\ RaiseFromLoad(UnlinkFailure)
         /\ UNCHANGED tmp_file
    ELSE /\ tmp_file' = [tmp_file EXCEPT !.exists = FALSE]
         /\ IF Contains(e.msg, "Format not recognised")
            THEN RaiseFromLoad(FormatError(file_extension(audio_file[1].name)))
            ELSE RaiseFromLoad(e)

\* lines 42-49: librosa.load(duration=30) and the trim
Decode ==
    /\ pc = "decode"
    /\ decode_calls' = decode_calls + 1
    /\ LET c == audio_file[1].content IN
       IF c.kind = "audio"
       THEN LET loaded == Min(c.seconds, MaxSeconds) * sample_rate
                trimmed == IF loaded > MaxSeconds * sample_rate
                           THEN MaxSeconds * sample_rate ELSE loaded
            IN /\ y' = <<[samples |-> trimmed, features |-> MainClips[c.clip]]>>
               /\ pc' = "unlink"
               /\ UNCHANGED <<tmp_file, load_error, message>>
       ELSE \E unlinked \in BOOLEAN : HandleLoadFailure(DecodeFailure(c), unlinked)
    /\ UNCHANGED <<session, requests, form, duration, resultVars>>

ReturnedDuration == 30

\* lines 51-52: unlink and return; a failing unlink enters lines 54-60
Unlink ==
    /\ pc = "unlink"
    /\ \E ok \in BOOLEAN :
          IF ok
          THEN /\ tmp_file' = [tmp_file EXCEPT !.exists = FALSE]
               /\ duration' = ReturnedDuration
               /\ pc' = "analyze"
               /\ UNCHANGED <<load_error, y, message>>
          ELSE /\ \E unlinked \in BOOLEAN : HandleLoadFailure(UnlinkFailure, unlinked)
               /\ UNCHANGED duration
    /\ UNCHANGED <<session, requests, form, decode_calls, resultVars>>

\* result_image with the except branch leaving the old image in place
ImageResult_kept(made) ==
    IF made THEN <<[format |-> "JPEG", request |-> requests]>> ELSE result_image

\* lines 732-739: result_image after create_result_image returned (made) or
\* raised
ImageResult(made) ==
    IF made THEN <<[format |-> "JPEG", request |-> requests]>> ELSE <<>>

\* the handler clearing the session state
HandlerSession_cleared ==
    /\ analysis_complete' = FALSE
    /\ result_image' = <<>>

\* lines 769-781: the handler writes nothing to the session state
HandlerSession == UNCHANGED session

AnalysisFailure ==
    [type |-> "ParameterError", msg |-> <<"audio buffer is not finite everywhere">>,
     arg |-> <<>>]

\* lines 650-653 raising: a librosa call of analyze_voice rejects the
\* buffer, and line 769 handles it
AnalysisFails ==
    /\ pc = "analyze"
    /\ message' = ErrorMessage(AnalysisFailure)
    /\ HandlerSession
    /\ pc' = "idle"
    /\ UNCHANGED <<requests, form, loadVars, resultVars>>

\* lines 655-781: the results are shown, the image is made and the session
\* updated; a failure of the display before line 731 reaches line 769, a
\* failure of create_result_image is swallowed at line 737
Render ==
    /\ pc = "render"
    /\ \E outcome \in {"ok", "image fails", "display fails"} :
          IF outcome = "display fails"
          THEN /\ message' = ErrorMessage(DisplayFailure)
               /\ HandlerSession
          ELSE /\ result_image' = ImageResult(outcome = "ok")
               /\ analysis_complete' = TRUE
               /\ message' = "success:analysis complete"
    /\ pc' = "idle"
    /\ UNCHANGED <<requests, form, loadVars, resultVars>>

Next ==
    \/ Submit
    \/ CheckExtension
    \/ WriteTemp
    \/ Decode
    \/ Unlink
    \/ ComputeScores
    \/ AdjustForPurpose
    \/ AnalysisFails
    \/ GenerateDiagnosis
    \/ Render

Spec == Init /\ [][Next]_vars

----------------------------------------------------------------------------
(* Claims about analyze_voice (SpecAnalyze) *)

Returned == pc = "diagnose"

\* C1 as stated: every score analyze_voice returns is an integer >= 10
\* (expression >= 30), so the total is at least 60.
C1_ScoresAtLeastTen ==
    Returned =>
        /\ \A k \in MetricSetKeys : metrics[k] \in Int /\ metrics[k] >= 10
        /\ metrics["expression"] >= 30
        /\ TotalOf(metrics) >= 60

\* C1 amended: every score analyze_voice returns is a non-negative integer,
\* volume is at least 5, pitch_stability at least 10 and expression at least
\* 30, so the total is at least 45.
C1_ScoreFloors ==
    Returned =>
        /\ \A k \in MetricSetKeys : metrics[k] \in Int /\ metrics[k] >= 0
        /\ metrics["volume"] >= 5
        /\ metrics["pitch_stability"] >= 10
        /\ metrics["expression"] >= 30
        /\ TotalOf(metrics) >= 45

\* a returned MetricSet that sits on every floor at once
C1_Witness ==
    /\ Returned
    /\ metrics["volume"] = 5
    /\ metrics["clarity"] = 0
    /\ metrics["pitch_stability"] = 10
    /\ metrics["rhythm"] = 0
    /\ metrics["expression"] = 30
    /\ metrics["resonance"] = 0

\* C2: every score analyze_voice returns is at most 99 after the purpose
\* multipliers, so the total is at most 594.
C2_ScoresAtMostCap ==
    Returned =>
        /\ \A k \in MetricSetKeys : metrics[k] <= 99
        /\ TotalOf(metrics) <= 594

\* a multiplied score that the re-cap cut back: expression 95 * 1.1 = 104
C2_Witness ==
    /\ Returned
    /\ purpose = "singing"
    /\ expression_score(y[1].features) = 95
    /\ metrics["expression"] = 99

\* the factor of the claim, in tenths
C4_Tenths(p, k) ==
    CASE p = "singing" /\ k = "pitch_stability" -> 12
      [] p = "singing" /\ k = "expression" -> 11
      [] p = "speaking" /\ k = "clarity" -> 12
      [] p = "speaking" /\ k = "rhythm" -> 11
      [] p = "presentation" /\ k = "volume" -> 11
      [] p = "presentation" /\ k = "clarity" -> 11
      [] OTHER -> 10

\* C4: the multiplier pass maps each capped score s to min(99, floor(s*k))
\* with k the factor of the purpose for that metric, leaves every other
\* metric unchanged, and under singing takes pitch_stability 80 to 96 and
\* 90 to 99.
C4_MultiplierPass ==
    [][pc = "adjust" =>
        /\ \A k \in MetricSetKeys :
              metrics'[k] = IF C4_Tenths(purpose, k) = 10 THEN metrics[k]
                            ELSE Min(99, (metrics[k] * C4_Tenths(purpose, k)) \div 10)
        /\ (purpose = "singing" /\ metrics["pitch_stability"] = 80)
              => metrics'["pitch_stability"] = 96
        /\ (purpose = "singing" /\ metrics["pitch_stability"] = 90)
              => metrics'["pitch_stability"] = 99]_vars

\* the pass has run on pitch_stability 80 under singing
C4_Witness ==
    /\ Returned
    /\ purpose = "singing"
    /\ pitch_stability_score(y[1].features) = 80
    /\ metrics["pitch_stability"] = 96

\* the rhythm score of the buffer had its tempo been t
C11_ScoreAt(t) == rhythm_score([y[1].features EXCEPT !.tempo = t], "speaking")

\* C11: under speaking the rhythm score before the multiplier is highest
\* near 120 BPM and symmetric: a tempo at least as close to 120 as another
\* scores at least as much, and 120 - x and 120 + x score the same.
C11_RewardsNaturalTempo ==
    (pc = "adjust" /\ purpose = "speaking") =>
        LET t1 == y[1].features.tempo IN
        \A t2 \in TempoSamples :
            /\ Abs(120 - t1) <= Abs(120 - t2) => metrics["rhythm"] >= C11_ScoreAt(t2)
            /\ Abs(120 - t1) = Abs(120 - t2) => metrics["rhythm"] = C11_ScoreAt(t2)

----------------------------------------------------------------------------
(* Claims about get_evaluation_level (SpecLevel) *)

\* C3: the level is S iff total >= 450, A iff 400..449, B iff 350..399,
\* C iff 300..349, D iff total <= 299, and each level always comes with the
\* same description.
C3_LevelSteps ==
    pc = "levelled" =>
        /\ level = "S" <=> total_score >= 450
        /\ level = "A" <=> (400 <= total_score /\ total_score <= 449)
        /\ level = "B" <=> (350 <= total_score /\ total_score <= 399)
        /\ level = "C" <=> (300 <= total_score /\ total_score <= 349)
        /\ level = "D" <=> total_score <= 299
        /\ level_desc = (CASE level = "S" -> "professional level"
                           [] level = "A" -> "excellent"
                           [] level = "B" -> "good"
                           [] level = "C" -> "standard"
                           [] level = "D" -> "room for improvement")

\* a total on a threshold has been classified
C3_Witness == pc = "levelled" /\ total_score = 400 /\ level = "A"

----------------------------------------------------------------------------
(* Claims about generate_diagnosis (SpecDiagnosis) *)

Diagnosed == pc = "render"

C5_Below == {k \in MetricSetKeys : metrics[k] < 60}

\* C5: there is a weakness clause iff some metric is below 60; it names the
\* lowest metric below 60 and, when there are two or more, the second
\* lowest, in ascending order with their values, and nothing else.
C5_WeaknessClause ==
    Diagnosed =>
        LET c == diagnosis.clause IN
        /\ (c # <<>>) <=> (C5_Below # {})
        /\ Len(c) = Min(2, Cardinality(C5_Below))
        /\ \A i \in 1..Len(c) :
              \E k \in C5_Below : c[i] = <<metrics_names[k], metrics[k]>>
        /\ Len(c) >= 1 => \A k \in C5_Below : c[1][2] <= metrics[k]
        /\ Len(c) = 2 =>
              /\ c[1][1] # c[2][1]
              /\ c[1][2] <= c[2][2]
              /\ \A k \in C5_Below :
                    metrics_names[k] # c[1][1] => c[2][2] <= metrics[k]

\* the weakness example: three metrics below 60, the lowest two named
C5_Witness ==
    /\ Diagnosed
    /\ metrics = ExampleMetrics
    /\ diagnosis.clause = << <<"label:resonance", 30>>, <<"label:loudness", 40>> >>

C6_Order == <<"volume", "clarity", "pitch_stability", "rhythm", "expression", "resonance">>

\* C6: the hint lines are exactly the hints of the metrics below 60, one
\* each, in the canonical metric order, whatever the level and purpose; no
\* metric below 60 means no hint line.
C6_Hints ==
    Diagnosed =>
        LET h == diagnosis.hints IN
        /\ Len(h) = Cardinality({i \in 1..6 : metrics[C6_Order[i]] < 60})
        /\ \A i \in 1..6 :
              (metrics[C6_Order[i]] < 60) <=> (\E j \in 1..Len(h) : h[j] = HintOf[C6_Order[i]])
        /\ \A j1, j2 \in 1..Len(h) :
              j1 < j2 =>
                 \E i1, i2 \in 1..6 :
                    i1 < i2 /\ h[j1] = HintOf[C6_Order[i1]] /\ h[j2] = HintOf[C6_Order[i2]]

\* the hint example: hints for volume, pitch_stability and resonance only
C6_Witness ==
    /\ Diagnosed
    /\ metrics = ExampleMetrics
    /\ diagnosis.hints = <<"hint:abdominal breathing", "hint:long tones",
                           "hint:resonance cavities">>

\* the templates registered for level l, with the state's name interpolated
C12_Templates(l) ==
    {[level |-> l, index |-> i, name |-> <<name, "san">>] : i \in 1..3}

C12_LevelOf(t) ==
    IF t >= 450 THEN "S" ELSE IF t >= 400 THEN "A" ELSE IF t >= 350 THEN "B"
    ELSE IF t >= 300 THEN "C" ELSE "D"

\* C12: two runs of generate_diagnosis on the same MetricSet and name give
\* the same total, level, description, weakness clause and hints; the first
\* paragraph of each is one of the three templates of the level of that
\* total; with the same template index the two diagnoses are equal.
C12_OnlyTemplateVaries ==
    [][(pc = "render" /\ pc' = "render") =>
        /\ total_score' = total_score
        /\ level' = level
        /\ level_desc' = level_desc
        /\ diagnosis'.clause = diagnosis.clause
        /\ diagnosis'.hints = diagnosis.hints
        /\ diagnosis.template \in C12_Templates(level)
        /\ diagnosis'.template \in C12_Templates(level')
        /\ level' = C12_LevelOf(total_score')
        /\ (diagnosis'.template.index = diagnosis.template.index) => diagnosis' = diagnosis]_vars

\* the third template has been picked for a MetricSet with a weakness clause
\* of two entries
C12_Witness ==
    /\ Diagnosed
    /\ metrics = ExampleMetrics
    /\ diagnosis.template.index = 3
    /\ Len(diagnosis.clause) = 2

----------------------------------------------------------------------------
(* Claims about load_audio and main (Spec) *)

\* the submission passed validation, so main called load_audio
LoadCalled == name # "" /\ purpose # "" /\ audio_file # <<>>

InLoad == pc \in {"load", "tmp_write", "decode", "unlink"}

\* load_audio has returned or raised
LoadLeft == LoadCalled /\ ~InLoad

IsUnsupportedFormat(e) ==
    /\ e.type = "ValueError"
    /\ \/ Contains(e.msg, "M4A files are currently not supported")
       \/ Contains(e.msg, "is not supported")

\* C7: for a file whose lower-cased extension is neither wav nor mp3,
\* load_audio writes no temporary file and makes no decode call, and it
\* ends in the unsupported-format error.
C7_RejectsOtherExtensions ==
    (LoadCalled /\ file_extension(audio_file[1].name) \notin {<<"w", "a", "v">>, <<"m", "p", "3">>})
        => /\ ~tmp_file.created
           /\ decode_calls = 0
           /\ LoadLeft => (load_error # <<>> /\ IsUnsupportedFormat(load_error[1]))

\* C8: when load_audio returns, the buffer holds the first min(d, 30)
\* seconds of the input and the reported duration is min(d, 30).
C8_ReportsTruncatedDuration ==
    (LoadLeft /\ load_error = <<>> /\ pc = "analyze") =>
        /\ y[1].samples = Min(audio_file[1].content.seconds, 30) * sample_rate
        /\ duration = Min(audio_file[1].content.seconds, 30)

\* C9: once load_audio has returned or raised, its temporary file does not
\* exist.
C9_TempFileRemoved == LoadLeft => ~tmp_file.exists

ValidationMessages ==
    {"error:enter your name", "error:select a purpose", "error:upload an audio file"}

\* C10: a submission with an empty name, no purpose or no file shows a
\* validation error and ends the run with load_audio, analyze_voice and
\* generate_diagnosis not called and the session state unchanged.
C10_ValidationStops ==
    [][(requests' = requests + 1 /\ (name' = "" \/ purpose' = "" \/ audio_file' = <<>>))
        => /\ message' \in ValidationMessages
           /\ pc' = "idle"
           /\ analysis_complete' = analysis_complete
           /\ result_image' = result_image
           /\ ~tmp_file'.created /\ decode_calls' = 0 /\ Len(y') = 0 /\ Len(load_error') = 0
           /\ DOMAIN metrics' = {}
           /\ Len(diagnosis') = 0 /\ total_score' = -1]_vars

\* a rejected submission after a completed analysis: the session state of
\* the earlier request is still there
C10_Witness ==
    /\ pc = "idle"
    /\ message \in ValidationMessages
    /\ analysis_complete
    /\ result_image # <<>>
    /\ requests = 2

----------------------------------------------------------------------------
(* Claims about the errors of load_audio and their messages (Spec) *)

\* librosa.load was called on bytes it could not decode
DecodeFailed == LoadLeft /\ decode_calls = 1 /\ audio_file[1].content.kind # "audio"

\* C13: in main's error handler the unsupported-format errors all show one
\* message, the decode errors all show another, each differing from the
\* message of every other kind; any other exception shows the generic
\* message; no message carries the text of the exception.
C13_OneMessagePerKind ==
    (LoadLeft /\ load_error # <<>>) =>
        LET e == load_error[1] IN
        /\ IsUnsupportedFormat(e) => message = "error:this file format is not supported"
        /\ (~IsUnsupportedFormat(e) /\ DecodeFailed /\ e.type # "OSError")
              => message = "error:file is broken or unreadable"
        /\ (~IsUnsupportedFormat(e) /\ e.type = "OSError") => message = "error:processing failed"
        /\ \A i \in 1..Len(e.msg) : message # e.msg[i]

\* C14: a decode failure whose message holds 'Format not recognised' leaves
\* load_audio as the unsupported-format error; every other decode failure
\* leaves it as an error of one kind, DecodeError, that carries the message
\* of the failure.
C14_DecodeErrorKinds ==
    (DecodeFailed /\ load_error # <<>> /\ load_error[1] # UnlinkFailure) =>
        LET e == load_error[1]
            raw == DecodeFailure(audio_file[1].content)
        IN IF Contains(raw.msg, "Format not recognised")
           THEN IsUnsupportedFormat(e)
           ELSE /\ e.type = "DecodeError"
                /\ \A i \in 1..Len(raw.msg) : Contains(e.msg, raw.msg[i])

----------------------------------------------------------------------------
(* Claims about the session state (Spec) *)

\* the request ran through ingest, analyze_voice and generate_diagnosis
DiagnosisMade == pc = "idle" /\ total_score # -1

\* the request ran to the end of the analysis block (line 741)
BlockCompleted == pc = "idle" /\ message = "success:analysis complete"

C16_ReachesEnd == pc = "render" /\ message' = "success:analysis complete"

\* C16: analysis_complete starts False, becomes True exactly at the steps
\* that end an analysis block, and is never set back; a step that does not
\* end an analysis block (validation failure, ingest error, analysis error)
\* leaves analysis_complete and result_image as they were.
C16_FlagFollowsCompletion ==
    /\ analysis_complete = FALSE
    /\ [][/\ C16_ReachesEnd => analysis_complete'
          /\ analysis_complete => analysis_complete'
          /\ ~C16_ReachesEnd =>
                /\ analysis_complete' = analysis_complete
                /\ result_image' = result_image]_vars

\* a request that failed after an earlier one completed: flag and image of
\* the earlier request are still there
C16_Witness ==
    /\ pc = "idle"
    /\ requests = 2
    /\ message = "error:processing failed"
    /\ analysis_complete
    /\ result_image # <<>>
    /\ result_image[1].request = 1

====
